---- MODULE Spec2Model ----
(***************************************************************************)
(* nanosync: field mapping, schema construction, text generation,         *)
(* validation and the two-phase sync, modelled from the resolver-keyed     *)
(* variant of the library (src/unnamed/part_000, lines 480-877).           *)
(*                                                                         *)
(* Text (the query and mutation strings) is a sequence of symbols.  A      *)
(* symbol is one character ("{", "(", ":", " ", the double quote, "a") or  *)
(* an indivisible run of name characters (a field key, "mutation",         *)
(* "query", "resolvedQuery", "null", "undefined").  Field keys are GraphQL *)
(* names.  A FieldValue is null or a string over the characters "a" and    *)
(* the double quote.                                                       *)
(***************************************************************************)
EXTENDS Integers, Sequences, FiniteSets, TLC

\* ---------------------------------------------------------------- bounds
MaxFields == 2

MaxValLen == 2

\* ------------------------------------------------------------ vocabulary
Keys == {"k1", "k2"}

Quote == "\""

ValueChars == {"a", Quote}

Punctuators == {"{", "}", "(", ")", ":"}

NameChars == Keys \cup {"a", "mutation", "query", "resolvedQuery", "null", "undefined"}

RECURSIVE SeqsUpTo(_, _)
SeqsUpTo(S, n) ==
    IF n = 0 THEN {<<>>}
    ELSE LET shorter == SeqsUpTo(S, n - 1)
         IN  shorter \cup {Append(s, x) : s \in {t \in shorter : Len(t) = n - 1}, x \in S}

\* FieldValue: null or a string (numbers, booleans and objects are left out)
NullValue == [kind |-> "null", chars |-> <<>>]

Str(chars) == [kind |-> "string", chars |-> chars]

\* a number as a resolver may return it; chars is its decimal text
NumberValue == [kind |-> "number", chars |-> <<"5">>]

\* what a resolver may resolve to: null, a string or a number
FieldValues == {NullValue, NumberValue} \cup {Str(c) : c \in SeqsUpTo(ValueChars, MaxValLen)}

\* MappedField: the keys of the source and the target field
MappedField(s, t) == [sourceField |-> s, targetField |-> t]

MappedFields == {MappedField(s, t) : s \in Keys, t \in Keys}

FieldLists == SeqsUpTo(MappedFields, MaxFields)

SeqToSet(s) == {s[i] : i \in 1..Len(s)}

SourceKeys(fields) == [i \in 1..Len(fields) |-> fields[i].sourceField]

TargetKeys(fields) == [i \in 1..Len(fields) |-> fields[i].targetField]

\* ------------------------------------------------------------ field model
\* Array.prototype.find: the first element that matches, 0 for undefined
First(hits) == IF hits = {} THEN 0 ELSE CHOOSE i \in hits : \A j \in hits : i <= j

findQueryFieldName(fields, mutationFieldName) ==
    LET i == First({j \in 1..Len(fields) : mutationFieldName = fields[j].targetField})
    IN  IF i = 0 THEN [found |-> FALSE, key |-> ""]
        ELSE [found |-> TRUE, key |-> fields[i].sourceField]

\* findLast instead of find: the last mapping of the source key
findMutationFieldNameLast(fields, queryFieldName) ==
    LET hits == {j \in 1..Len(fields) : queryFieldName = fields[j].sourceField}
    IN  IF hits = {} THEN [found |-> FALSE, key |-> ""]
        ELSE [found |-> TRUE,
              key |-> fields[CHOOSE i \in hits : \A j \in hits : j <= i].targetField]

findMutationFieldName(fields, queryFieldName) ==
    LET i == First({j \in 1..Len(fields) : queryFieldName = fields[j].sourceField})
    IN  IF i = 0 THEN [found |-> FALSE, key |-> ""]
        ELSE [found |-> TRUE, key |-> fields[i].targetField]

\* ---------------------------------------------------------- schema builder
\* reduce((acc, f) => ({ ...f })): the accumulator is not spread
ObjectKeysLast(keys) == IF keys = <<>> THEN <<>> ELSE <<keys[Len(keys)]>>

\* Object.keys of the object built by spreading one-key objects in order:
\* a repeated key keeps the position of its first occurrence.
RECURSIVE ObjectKeys(_)
ObjectKeys(keys) ==
    IF keys = <<>> THEN <<>>
    ELSE LET front == ObjectKeys(SubSeq(keys, 1, Len(keys) - 1))
             last == keys[Len(keys)]
         IN  IF last \in SeqToSet(front) THEN front ELSE Append(front, last)

NoType == [defined |-> FALSE, fields |-> <<>>]

createQuerySchema(fields) ==
    [defined |-> TRUE, fields |-> ObjectKeys(SourceKeys(fields))]

createMutationSchema(fields) ==
    [defined |-> TRUE, fields |-> ObjectKeys(TargetKeys(fields))]

createSchema(fields) ==
    [defined |-> TRUE,
     query |-> createQuerySchema(fields),
     mutation |-> createMutationSchema(fields)]

NoSchema == [defined |-> FALSE, query |-> NoType, mutation |-> NoType]

\* ---------------------------------------------------------------- process
Integration(hasQuery, hasMutation) ==
    [defined |-> TRUE, resolveQuery |-> hasQuery, resolveMutation |-> hasMutation]

NoIntegration == [defined |-> FALSE, resolveQuery |-> FALSE, resolveMutation |-> FALSE]

\* the callback an integration is not asked for is always there
SourceIntegrations == {Integration(q, TRUE) : q \in BOOLEAN} \cup {NoIntegration}

TargetIntegrations == {Integration(TRUE, m) : m \in BOOLEAN} \cup {NoIntegration}

ProcessOptions(fieldsDefined, fields, source, target) ==
    [defined |-> TRUE, fieldsDefined |-> fieldsDefined, fields |-> fields,
     sourceIntegration |-> source, targetIntegration |-> target]

NoOptions ==
    [defined |-> FALSE, fieldsDefined |-> FALSE, fields |-> <<>>,
     sourceIntegration |-> NoIntegration, targetIntegration |-> NoIntegration]

OptionsSet ==
    {ProcessOptions(TRUE, f, s, t) :
        f \in FieldLists, s \in SourceIntegrations, t \in TargetIntegrations}
    \cup {ProcessOptions(FALSE, <<>>, s, t) : s \in SourceIntegrations, t \in TargetIntegrations}
    \cup {NoOptions}

Process(options, schema) == [defined |-> TRUE, options |-> options, schema |-> schema]

NoProcess == [defined |-> FALSE, options |-> NoOptions, schema |-> NoSchema]

\* A schema as a caller can hand it to sync: built from some mapping list,
\* with either root type possibly left out, or no schema at all.
Schemas ==
    {[createSchema(f) EXCEPT !.query = IF q THEN @ ELSE NoType,
                             !.mutation = IF m THEN @ ELSE NoType] :
        f \in FieldLists, q \in BOOLEAN, m \in BOOLEAN}
    \cup {NoSchema}

\* Process is a plain record type: a caller may assemble one without createProcess
RawProcesses == {Process(o, sch) : o \in OptionsSet, sch \in Schemas} \cup {NoProcess}


\* -------------------------------------------------------------- validator
\* validateProcess without the check of the target keys
ChecksNoTargetUniqueness(process) ==
    LET options == process.options
        fields == options.fields
        schema == process.schema
    IN  << <<process.defined, "Process is required">>,
           <<options.defined, "Options are required">>,
           <<options.fieldsDefined, "Fields are required">>,
           <<options.sourceIntegration.defined, "Source integration is required">>,
           <<options.targetIntegration.defined, "Target integration is required">>,
           <<schema.defined, "Schema is required">>,
           <<Len(fields) > 0, "Fields cannot be empty">>,
           <<Len(fields) = Cardinality(SeqToSet(SourceKeys(fields))),
             "Source fields must be unique">>,
           <<options.sourceIntegration.resolveQuery, "Source must have a resolveQuery">>,
           <<options.targetIntegration.resolveMutation, "Target must have a resolveMutation">>,
           <<schema.query.defined, "Schema must have a query type">>,
           <<schema.mutation.defined, "Schema must have a mutation type">>,
           <<Len(schema.query.fields) = Len(schema.mutation.fields),
             "Schema must have as many query fields as there are mutation fields">> >>

\* validateProcess with the resolver checks moved before the checks of the fields
ChecksResolversFirst(process) ==
    LET options == process.options
        fields == options.fields
        schema == process.schema
    IN  << <<process.defined, "Process is required">>,
           <<options.defined, "Options are required">>,
           <<options.fieldsDefined, "Fields are required">>,
           <<options.sourceIntegration.defined, "Source integration is required">>,
           <<options.targetIntegration.defined, "Target integration is required">>,
           <<schema.defined, "Schema is required">>,
           <<options.sourceIntegration.resolveQuery, "Source must have a resolveQuery">>,
           <<options.targetIntegration.resolveMutation, "Target must have a resolveMutation">>,
           <<Len(fields) > 0, "Fields cannot be empty">>,
           <<Len(fields) = Cardinality(SeqToSet(SourceKeys(fields))),
             "Source fields must be unique">>,
           <<Len(fields) = Cardinality(SeqToSet(TargetKeys(fields))),
             "Target fields must be unique">>,
           <<schema.query.defined, "Schema must have a query type">>,
           <<schema.mutation.defined, "Schema must have a mutation type">>,
           <<Len(schema.query.fields) = Len(schema.mutation.fields),
             "Schema must have as many query fields as there are mutation fields">> >>

\* The invariant() calls of validateProcess in source order: <<condition, message>>.
\* A condition is evaluated only when every earlier one held.
Checks(process) ==
    LET options == process.options
        fields == options.fields
        schema == process.schema
    IN  << <<process.defined, "Process is required">>,
           <<options.defined, "Options are required">>,
           <<options.fieldsDefined, "Fields are required">>,
           <<options.sourceIntegration.defined, "Source integration is required">>,
           <<options.targetIntegration.defined, "Target integration is required">>,
           <<schema.defined, "Schema is required">>,
           <<Len(fields) > 0, "Fields cannot be empty">>,
           <<Len(fields) = Cardinality(SeqToSet(SourceKeys(fields))),
             "Source fields must be unique">>,
           <<Len(fields) = Cardinality(SeqToSet(TargetKeys(fields))),
             "Target fields must be unique">>,
           <<options.sourceIntegration.resolveQuery, "Source must have a resolveQuery">>,
           <<options.targetIntegration.resolveMutation, "Target must have a resolveMutation">>,
           <<schema.query.defined, "Schema must have a query type">>,
           <<schema.mutation.defined, "Schema must have a mutation type">>,
           <<Len(schema.query.fields) = Len(schema.mutation.fields),
             "Schema must have as many query fields as there are mutation fields">> >>

\* The first failing check throws; the catch logs its message and returns false.
FirstFailure(checks) ==
    LET failed == {i \in 1..Len(checks) : ~checks[i][1]}
    IN  IF failed = {} THEN 0 ELSE CHOOSE i \in failed : \A j \in failed : i <= j

\* validateProcess without its try/catch: the failed invariant() propagates
validateProcessNoCatch(process) ==
    LET i == FirstFailure(Checks(process))
    IN  [ok |-> i = 0, thrown |-> i # 0, console |-> <<>>]

validateProcess(process) ==
    LET checks == Checks(process)
        i == FirstFailure(checks)
    IN  IF i = 0 THEN [ok |-> TRUE, thrown |-> FALSE, console |-> <<>>]
        ELSE [ok |-> FALSE, thrown |-> FALSE,
              console |-> << <<"error", "Validation failed", checks[i][2]>> >>]

\* ----------------------------------------------------------- createProcess
\* Reading a property of an undefined options, fields or integration inside
\* createSchema is a TypeError; a rejected process is Error("Invalid process").
\* createProcess without the validateProcess call
createProcessUnchecked(options) ==
    IF ~options.defined \/ ~options.fieldsDefined
       \/ ~options.sourceIntegration.defined \/ ~options.targetIntegration.defined
    THEN [thrown |-> "TypeError", process |-> NoProcess, console |-> <<>>]
    ELSE [thrown |-> "none", process |-> Process(options, createSchema(options.fields)),
          console |-> <<>>]

createProcess(options) ==
    IF ~options.defined \/ ~options.fieldsDefined
       \/ ~options.sourceIntegration.defined \/ ~options.targetIntegration.defined
    THEN [thrown |-> "TypeError", process |-> NoProcess, console |-> <<>>]
    ELSE LET process == Process(options, createSchema(options.fields))
             v == validateProcess(process)
         IN  IF ~v.ok
             THEN [thrown |-> "Invalid process", process |-> NoProcess, console |-> v.console]
             ELSE [thrown |-> "none", process |-> process, console |-> v.console]

\* ---------------------------------------------------------- text generator
RECURSIVE Join(_, _)
Join(parts, sep) ==
    IF parts = <<>> THEN <<>>
    ELSE IF Len(parts) = 1 THEN parts[1]
    ELSE parts[1] \o sep \o Join(Tail(parts), sep)

\* createQueryString that ends every name with a space
createQueryStringTrailingSpace(schema) ==
    IF ~schema.query.defined
    THEN [thrown |-> TRUE, message |-> "Schema has no query type defined", text |-> <<>>]
    ELSE LET names == [i \in 1..Len(schema.query.fields) |-> <<schema.query.fields[i], " ">>]
         IN  [thrown |-> FALSE, message |-> "",
              text |-> <<"query", "{">> \o Join(names, <<>>) \o <<"}">>]

createQueryString(schema) ==
    IF ~schema.query.defined
    THEN [thrown |-> TRUE, message |-> "Schema has no query type defined", text |-> <<>>]
    ELSE LET names == [i \in 1..Len(schema.query.fields) |-> <<schema.query.fields[i]>>]
         IN  [thrown |-> FALSE, message |-> "",
              text |-> <<"query", "{">> \o Join(names, <<" ">>) \o <<"}">>]

\* a template that leaves the double quotes of a string out
TemplateStringNoQuotes(queryResults, key) ==
    IF key \notin DOMAIN queryResults THEN <<"undefined">>
    ELSE IF queryResults[key].kind = "null" THEN <<"null">>
    ELSE SelectSeq(queryResults[key].chars, LAMBDA ch : ch # Quote)

\* `${value}`: a string is inserted as it is, null reads "null", a missing
\* entry (undefined) reads "undefined".
TemplateString(queryResults, key) ==
    IF key \notin DOMAIN queryResults THEN <<"undefined">>
    ELSE IF queryResults[key].kind = "null" THEN <<"null">>
    ELSE queryResults[key].chars

MutationItem(mutationFieldName, queryFieldName, queryResults) ==
    <<mutationFieldName, "(", "resolvedQuery", ":", Quote>>
    \o TemplateString(queryResults, queryFieldName) \o <<Quote, ")">>

createMutationString(schema, fieldMappings, queryResults) ==
    IF ~schema.mutation.defined
    THEN [thrown |-> TRUE, message |-> "Schema has no mutation type defined",
          slot |-> "", text |-> <<>>]
    ELSE LET slots == schema.mutation.fields
             unpaired == {i \in 1..Len(slots) :
                             ~findQueryFieldName(fieldMappings, slots[i]).found}
             items == [i \in 1..Len(slots) |->
                          MutationItem(slots[i],
                                       findQueryFieldName(fieldMappings, slots[i]).key,
                                       queryResults)]
         IN  IF unpaired # {}
             THEN [thrown |-> TRUE, message |-> "Could not find query field for mutation field",
                   slot |-> slots[CHOOSE i \in unpaired : \A j \in unpaired : i <= j],
                   text |-> <<>>]
             ELSE [thrown |-> FALSE, message |-> "", slot |-> "",
                   text |-> <<"mutation", "{">> \o Join(items, <<" ">>) \o <<"}">>]

\* ------------------------------------------------- graphql(): lexer, parser
\* The graphql() call of resolveSource and resolveTarget reads the generated
\* text back: it lexes it into names, punctuators and string values, parses
\* the operation, validates it against the schema and only then executes it.
Token(type, val) == [type |-> type, val |-> val]

\* index of the first double quote at or after i, 0 when there is none
RECURSIVE StringEnd(_, _)
StringEnd(text, i) ==
    IF i > Len(text) THEN 0
    ELSE IF text[i] = Quote THEN i
    ELSE StringEnd(text, i + 1)

\* index of the first run of three double quotes at or after i, 0 when none
RECURSIVE BlockStringEnd(_, _)
BlockStringEnd(text, i) ==
    IF i + 2 > Len(text) THEN 0
    ELSE IF text[i] = Quote /\ text[i + 1] = Quote /\ text[i + 2] = Quote THEN i
    ELSE BlockStringEnd(text, i + 1)

\* index of the last symbol of the name that starts at i
RECURSIVE NameEnd(_, _)
NameEnd(text, i) ==
    IF i + 1 <= Len(text) /\ text[i + 1] \in NameChars THEN NameEnd(text, i + 1) ELSE i

\* the value of a one-line block string: a line of blanks only is dropped
BlockStringValue(raw) ==
    IF \A i \in 1..Len(raw) : raw[i] = " " THEN <<>> ELSE raw

IsBlockStringStart(text, i) ==
    i + 2 <= Len(text) /\ text[i + 1] = Quote /\ text[i + 2] = Quote

RECURSIVE Lex(_, _, _)
Lex(text, i, acc) ==
    IF i > Len(text) THEN [ok |-> TRUE, tokens |-> acc]
    ELSE IF text[i] = " " THEN Lex(text, i + 1, acc)
    ELSE IF text[i] \in Punctuators THEN Lex(text, i + 1, Append(acc, Token(text[i], <<>>)))
    ELSE IF text[i] = Quote
    THEN IF IsBlockStringStart(text, i)
         THEN LET e == BlockStringEnd(text, i + 3)
              IN  IF e = 0 THEN [ok |-> FALSE, tokens |-> <<>>]
                  ELSE Lex(text, e + 3,
                           Append(acc, Token("String", BlockStringValue(SubSeq(text, i + 3, e - 1)))))
         ELSE LET e == StringEnd(text, i + 1)
              IN  IF e = 0 THEN [ok |-> FALSE, tokens |-> <<>>]
                  ELSE Lex(text, e + 1, Append(acc, Token("String", SubSeq(text, i + 1, e - 1))))
    ELSE LET e == NameEnd(text, i)
         IN  Lex(text, e + 1, Append(acc, Token("Name", SubSeq(text, i, e))))

Selection(name, hasArg, argName, arg) ==
    [name |-> name, hasArg |-> hasArg, argName |-> argName, arg |-> arg]

IsType(tokens, i, type) == i <= Len(tokens) /\ tokens[i].type = type

\* Selections of the form  name  or  name(argName:"string")  up to the closing
\* brace, which must be the last token.  Texts built by createQueryString and
\* createMutationString over the modelled characters parse to nothing else.
RECURSIVE ParseSelections(_, _, _)
ParseSelections(tokens, i, acc) ==
    IF IsType(tokens, i, "}")
    THEN IF acc # <<>> /\ i = Len(tokens)
         THEN [ok |-> TRUE, selections |-> acc] ELSE [ok |-> FALSE, selections |-> <<>>]
    ELSE IF ~IsType(tokens, i, "Name") THEN [ok |-> FALSE, selections |-> <<>>]
    ELSE IF IsType(tokens, i + 1, "(")
    THEN IF /\ IsType(tokens, i + 2, "Name") /\ IsType(tokens, i + 3, ":")
            /\ IsType(tokens, i + 4, "String") /\ IsType(tokens, i + 5, ")")
         THEN ParseSelections(tokens, i + 6,
                  Append(acc, Selection(tokens[i].val, TRUE, tokens[i + 2].val, tokens[i + 4].val)))
         ELSE [ok |-> FALSE, selections |-> <<>>]
    ELSE ParseSelections(tokens, i + 1, Append(acc, Selection(tokens[i].val, FALSE, <<>>, <<>>)))

parse(text) ==
    LET lexed == Lex(text, 1, <<>>)
        tokens == lexed.tokens
        bad == [ok |-> FALSE, operation |-> "", selections |-> <<>>]
    IN  IF ~lexed.ok THEN bad
        ELSE IF /\ IsType(tokens, 1, "Name") /\ tokens[1].val \in {<<"query">>, <<"mutation">>}
                /\ IsType(tokens, 2, "{")
        THEN LET sel == ParseSelections(tokens, 3, <<>>)
             IN  IF sel.ok
                 THEN [ok |-> TRUE, operation |-> tokens[1].val[1], selections |-> sel.selections]
                 ELSE bad
        ELSE bad

\* validateSchema: a query root type is required and every root type has fields
validateSchema(schema) ==
    /\ schema.query.defined
    /\ schema.query.fields # <<>>
    /\ schema.mutation.defined => schema.mutation.fields # <<>>

RootType(schema, operation) == IF operation = "query" THEN schema.query ELSE schema.mutation

\* validate: the operation's root type exists, every selected field is one of
\* its slots, only mutation slots take the argument resolvedQuery, and two
\* selections of one slot carry the same argument.
validate(schema, document) ==
    LET type == RootType(schema, document.operation)
        sels == document.selections
    IN  /\ type.defined
        /\ \A i \in 1..Len(sels) :
              /\ Len(sels[i].name) = 1
              /\ sels[i].name[1] \in SeqToSet(type.fields)
              /\ sels[i].hasArg =>
                    document.operation = "mutation" /\ sels[i].argName = <<"resolvedQuery">>
        /\ \A i, j \in 1..Len(sels) : sels[i].name = sels[j].name => sels[i] = sels[j]

\* collectFields: the selected slots in document order, each once
RECURSIVE collectFields(_)
collectFields(sels) ==
    IF sels = <<>> THEN <<>>
    ELSE LET front == collectFields(SubSeq(sels, 1, Len(sels) - 1))
             last == sels[Len(sels)]
         IN  IF last \in SeqToSet(front) THEN front ELSE Append(front, last)

\* What graphql() does before it runs any resolver: ok = FALSE stands for a
\* result with errors and no resolver call.
prepare(schema, text) ==
    LET document == parse(text)
    IN  IF validateSchema(schema) /\ document.ok /\ validate(schema, document)
        THEN [ok |-> TRUE, slots |-> collectFields(document.selections)]
        ELSE [ok |-> FALSE, slots |-> <<>>]

\* ------------------------------------------------------------------ state
VARIABLES
    pc,             \* "start", "createFailed", "constructed", "query", "mutation", "done"
    process,        \* the Process handed to sync
    origin,         \* who built the process: "none", "createProcess", "caller"
    given,          \* the options createProcess was called with
    thrown,         \* what createProcess threw: "none", "TypeError", "Invalid process"
    console,        \* the console.error / console.warn / console.log calls so far
    queryCalls,     \* the resolveQuery invocations of this sync, in call order
    queryState,     \* per source key: the state of its resolveQuery promise
    mutationSlots,  \* the mutation selections graphql() executes, in order
    mutationCalls,  \* the resolveMutation invocations of this sync, in call order
    queryResults,   \* sync's queryResults: what resolveSource returned (or that it threw)
    ret,            \* what sync returned (or raised)
    lib             \* a direct call of an exported helper: its arguments and its outcome

vars == <<pc, process, origin, given, thrown, console, queryCalls, queryState, mutationSlots,
          mutationCalls, queryResults, ret, lib>>

Promise(status, value) == [status |-> status, value |-> value]

NoCall == Promise("none", NullValue)

Undefined == [kind |-> "undefined", chars |-> <<>>]

Result(kind, data) == [kind |-> kind, data |-> data]

NotReturned == Result("none", <<>>)

\* a keyed mapping (Record<string, any>) is a function on the keys it holds
EmptyMapping == [k \in {} |-> NullValue]

Outcome(kind, data) == [kind |-> kind, data |-> data]

\* the outcome of a helper: a thrown error (message, offending slot), a text, or a key
LibOut(threw, message, slot, text, found, key) ==
    [thrown |-> threw, message |-> message, slot |-> slot, text |-> text,
     found |-> found, key |-> key]

LibCall(fn, fields, schema, results, key, out) ==
    [fn |-> fn, fields |-> fields, schema |-> schema, queryResults |-> results,
     key |-> key, out |-> out]

NoLibCall == LibCall("none", <<>>, NoSchema, EmptyMapping, "", LibOut(FALSE, "", "", <<>>, FALSE, ""))

Init ==
    /\ pc = "start"
    /\ process = NoProcess
    /\ origin = "none"
    /\ given = NoOptions
    /\ thrown = "none"
    /\ console = <<>>
    /\ queryCalls = <<>>
    /\ queryState = [k \in Keys |-> NoCall]
    /\ mutationSlots = <<>>
    /\ mutationCalls = <<>>
    /\ queryResults = Outcome("none", EmptyMapping)
    /\ ret = NotReturned
    /\ lib = NoLibCall

\* ----------------------------------------------------- integration (mocks)
\* resolveMutation of the test integrations: `mutated_${key}_${value}`
MutationValue(key, value) == Str(<<"mutated", key>> \o value.chars)

\* ------------------------------------------------------- resolution engine
\* GraphQLString.serialize, the type of every query slot: a string stays as
\* it is, a finite number becomes its decimal text, null stays null
Serialize(value) == IF value.kind = "number" THEN Str(value.chars) ELSE value

\* result.data of the query: the fulfilled value of each slot, null for a
\* slot whose resolver rejected (its error is in result.errors)
QueryData(slots, state) ==
    [k \in SeqToSet(slots) |->
        IF state[k].status = "fulfilled" THEN Serialize(state[k].value) ELSE NullValue]

\* resolveSource without the result.errors test
resolveSourceIgnoresErrors(slots, state) == FALSE

\* resolveSource throws when result.errors is set
resolveSourceThrows(slots, state) == \E k \in SeqToSet(slots) : state[k].status = "rejected"

\* a query that resolves only when every slot has fulfilled
QuerySettledAllFulfilled(slots, state) == \A k \in SeqToSet(slots) : state[k].status = "fulfilled"

\* a query that resolves with the first fulfilled slot
QuerySettledFirst(slots, state) == \E k \in SeqToSet(slots) : state[k].status = "fulfilled"

\* graphql() of the query resolves once every slot's promise has settled
QuerySettled(slots, state) == \A k \in SeqToSet(slots) : state[k].status # "pending"

\* resolveTarget without the result.errors test
resolveTargetIgnoresErrors(calls) == FALSE

\* resolveTarget throws when result.errors is set
resolveTargetThrows(calls) == \E i \in 1..Len(calls) : calls[i].status = "rejected"

\* result.data of the mutation: one entry per executed slot
MutationData(calls) ==
    [i \in 1..Len(calls) |->
        [key |-> calls[i].key,
         value |-> IF calls[i].status = "fulfilled" THEN calls[i].result ELSE NullValue]]

\* the resolve() of a mutation slot: resolver(f.targetField.key, args.resolvedQuery)
MutationCall(selection) ==
    [key |-> selection.name[1],
     arg |-> IF selection.hasArg THEN Str(selection.arg) ELSE Undefined,
     status |-> "pending",
     result |-> NullValue]

\* ------------------------------------------------------- sync orchestrator
\* sync without its try/catch: the error reaches the caller
syncRethrows(message) == Result("raised", <<>>)

\* the catch of sync: log the message, return null
syncCatch(message) == Result("null", <<>>)

\* sync without the validateProcess gate
syncUnchecked(p) == TRUE

\* the gate of sync: validateProcess(process)
syncValid(p) == validateProcess(p).ok

SyncFailed(message) ==
    /\ ret' = syncCatch(message)
    /\ console' = console \o << <<"error", "Process sync failed", message>> >>
    /\ pc' = "done"

\* createProcess(options): the caller builds the process with the library
CreateProcess(options) ==
    /\ pc = "start"
    /\ LET r == createProcess(options)
       IN  /\ origin' = "createProcess"
           /\ given' = options
           /\ thrown' = r.thrown
           /\ process' = r.process
           /\ console' = console \o r.console
           /\ pc' = IF r.thrown = "none" THEN "constructed" ELSE "createFailed"
    /\ UNCHANGED <<queryCalls, queryState, mutationSlots, mutationCalls, queryResults, ret, lib>>

\* the caller assembles the process record itself
AssembleProcess(p) ==
    /\ pc = "start"
    /\ process' = p
    /\ origin' = "caller"
    /\ pc' = "constructed"
    /\ UNCHANGED <<given, thrown, console, queryCalls, queryState, mutationSlots, mutationCalls,
                   queryResults, ret, lib>>

\* sync(process) up to its first suspension: validateProcess, then
\* resolveSource up to the await of graphql(), which has called the resolver
\* of every query slot
Sync ==
    /\ pc = "constructed"
    /\ IF ~syncValid(process)
       THEN /\ console' = console \o validateProcess(process).console
                              \o << <<"warn", "Process is invalid", "">> >>
            /\ ret' = Result("null", <<>>)
            /\ pc' = "done"
            /\ UNCHANGED <<queryCalls, queryState>>
       ELSE LET query == createQueryString(process.schema)
                run == prepare(process.schema, query.text)
            IN  IF query.thrown
                THEN SyncFailed(query.message) /\ UNCHANGED <<queryCalls, queryState>>
                ELSE IF ~run.ok
                THEN SyncFailed("Query execution failed") /\ UNCHANGED <<queryCalls, queryState>>
                ELSE /\ queryCalls' = [i \in 1..Len(run.slots) |-> run.slots[i].name[1]]
                     /\ queryState' = [k \in Keys |->
                            IF \E i \in 1..Len(run.slots) : run.slots[i].name[1] = k
                            THEN Promise("pending", NullValue) ELSE queryState[k]]
                     /\ pc' = "query"
                     /\ UNCHANGED <<console, ret>>
    /\ UNCHANGED <<process, origin, given, thrown, mutationSlots, mutationCalls, queryResults, lib>>

\* resolveTarget(process, queryResults) up to its first suspension: the
\* mutation text, graphql() up to the call of the first slot's resolver
ResolveTargetStart(results) ==
    LET mutation == createMutationString(process.schema, process.options.fields, results)
        run == prepare(process.schema, mutation.text)
    IN  IF mutation.thrown
        THEN SyncFailed(mutation.message) /\ UNCHANGED <<mutationSlots, mutationCalls>>
        ELSE IF ~run.ok
        THEN SyncFailed("Mutation execution failed") /\ UNCHANGED <<mutationSlots, mutationCalls>>
        ELSE /\ mutationSlots' = run.slots
             /\ mutationCalls' = <<MutationCall(run.slots[1])>>
             /\ pc' = "mutation"
             /\ UNCHANGED <<console, ret>>

\* the promise of resolveQuery(k) settles; when it is the last one, sync
\* resumes: resolveSource returns or throws, resolveTarget starts
QuerySettles(k, outcome) ==
    /\ pc = "query"
    /\ queryState[k].status = "pending"
    /\ LET settled == [queryState EXCEPT ![k] = outcome]
       IN  /\ queryState' = settled
           /\ IF QuerySettled(queryCalls, settled)
              THEN IF resolveSourceThrows(queryCalls, settled)
                   THEN /\ queryResults' = Outcome("thrown", EmptyMapping)
                        /\ SyncFailed("Query execution failed")
                        /\ UNCHANGED <<mutationSlots, mutationCalls>>
                   ELSE /\ queryResults' = Outcome("data", QueryData(queryCalls, settled))
                        /\ ResolveTargetStart(QueryData(queryCalls, settled))
              ELSE UNCHANGED <<pc, console, mutationSlots, mutationCalls, queryResults, ret>>
    /\ UNCHANGED <<process, origin, given, thrown, queryCalls, lib>>

QueryFulfils(k, v) == QuerySettles(k, Promise("fulfilled", v))

QueryRejects(k) == QuerySettles(k, Promise("rejected", NullValue))

\* the promise of the running resolveMutation call settles; graphql() runs
\* mutation slots one after the other and goes on after a rejection; after
\* the last one resolveTarget returns or throws and sync returns
MutationSettles(status) ==
    /\ pc = "mutation"
    /\ LET n == Len(mutationCalls)
           call == mutationCalls[n]
           settled == [mutationCalls EXCEPT ![n] =
                          [@ EXCEPT !.status = status,
                                    !.result = IF status = "fulfilled"
                                               THEN MutationValue(call.key, call.arg)
                                               ELSE NullValue]]
       IN  IF n < Len(mutationSlots)
           THEN /\ mutationCalls' = Append(settled, MutationCall(mutationSlots[n + 1]))
                /\ UNCHANGED <<pc, console, ret>>
           ELSE /\ mutationCalls' = settled
                /\ IF resolveTargetThrows(settled)
                   THEN SyncFailed("Mutation execution failed")
                   ELSE /\ ret' = Result("mapping", MutationData(settled))
                        /\ console' = console \o << <<"log", "Process synced", "">> >>
                        /\ pc' = "done"
    /\ UNCHANGED <<process, origin, given, thrown, queryCalls, queryState, mutationSlots,
                   queryResults, lib>>

MutationFulfils == MutationSettles("fulfilled")

MutationRejects == MutationSettles("rejected")

Next ==
    \/ \E options \in OptionsSet : CreateProcess(options)
    \/ \E p \in RawProcesses : AssembleProcess(p)
    \/ Sync
    \/ \E k \in Keys, v \in FieldValues : QueryFulfils(k, v)
    \/ \E k \in Keys : QueryRejects(k)
    \/ MutationFulfils
    \/ MutationRejects

Spec == Init /\ [][Next]_vars

\* Every resolver call that sync issues settles: the promise of each
\* resolveQuery(k) and of the running resolveMutation call is fulfilled or
\* rejected at some time.
ResolverCallsSettle ==
    /\ \A k \in Keys : WF_vars(QueryRejects(k) \/ \E v \in FieldValues : QueryFulfils(k, v))
    /\ WF_vars(MutationFulfils \/ MutationRejects)

FairSpec == Spec /\ ResolverCallsSettle

\* --------------------------------------------- direct calls of the helpers
\* queryResults as a caller can pass it: values for some of the keys
QueryResultsSet == UNION {[D -> FieldValues] : D \in SUBSET Keys}

\* queryResults with plain values only
PlainResultsSet == {[k \in D |-> Str(<<"a">>)] : D \in SUBSET Keys}

\* The schemas createMutationString is called with: the one built from the
\* mapping list (as resolveTarget does), and with plain values any schema.
SchemasFor(fields, results) ==
    IF results \in PlainResultsSet THEN Schemas \cup {createSchema(fields)}
    ELSE {createSchema(fields)}

LibFrame ==
    UNCHANGED <<pc, process, origin, given, thrown, console, queryCalls, queryState,
                mutationSlots, mutationCalls, queryResults, ret>>

\* the caller has a mapping list at hand
ChooseFields(fields) ==
    /\ pc = "start"
    /\ lib = NoLibCall
    /\ lib' = [NoLibCall EXCEPT !.fn = "fields", !.fields = fields]
    /\ LibFrame

\* createQueryString(createSchema(fields, ...)), or of a schema without a query type
CallCreateQueryString(hasQuery) ==
    /\ lib.fn = "fields"
    /\ LET schema == [createSchema(lib.fields) EXCEPT !.query = IF hasQuery THEN @ ELSE NoType]
           r == createQueryString(schema)
       IN  lib' = LibCall("createQueryString", lib.fields, schema, EmptyMapping, "",
                          LibOut(r.thrown, r.message, "", r.text, FALSE, ""))
    /\ LibFrame

\* createMutationString(schema, fieldMappings, queryResults)
CallCreateMutationString(schema, results) ==
    /\ lib.fn = "fields"
    /\ LET r == createMutationString(schema, lib.fields, results)
       IN  lib' = LibCall("createMutationString", lib.fields, schema, results, "",
                          LibOut(r.thrown, r.message, r.slot, r.text, FALSE, ""))
    /\ LibFrame

\* findMutationFieldName(fields, findQueryFieldName(fields, t)); an undefined
\* source key finds nothing
CallInverseLookup(t) ==
    /\ lib.fn = "fields"
    /\ LET q == findQueryFieldName(lib.fields, t)
           m == IF q.found THEN findMutationFieldName(lib.fields, q.key)
                ELSE [found |-> FALSE, key |-> ""]
       IN  lib' = LibCall("findMutationFieldName", lib.fields, NoSchema, EmptyMapping, t,
                          LibOut(FALSE, "", q.key, <<>>, m.found, m.key))
    /\ LibFrame

LibNext ==
    \/ \E f \in FieldLists : ChooseFields(f)
    \/ \E q \in BOOLEAN : CallCreateQueryString(q)
    \/ \E r \in QueryResultsSet : \E sch \in SchemasFor(lib.fields, r) :
          CallCreateMutationString(sch, r)
    \/ \E t \in Keys : CallInverseLookup(t)

LibSpec == Init /\ [][LibNext]_vars

\* ----------------------------------------------------------------- claims
SyncStarted == pc \in {"query", "mutation", "done"}

QueryRejected == \E k \in Keys : queryState[k].status = "rejected"

MutationRejected == \E i \in 1..Len(mutationCalls) : mutationCalls[i].status = "rejected"

MutationFulfilled == \E i \in 1..Len(mutationCalls) : mutationCalls[i].status = "fulfilled"

HasDuplicate(keys) == \E i, j \in 1..Len(keys) : i # j /\ keys[i] = keys[j]

\* a process built by the schema builder from its own options
BuiltFromOptions(p) == p.defined /\ p.schema = createSchema(p.options.fields)

\* C1: sync never raises: whatever the process (missing, invalid or valid)
\* and however the resolver calls settle, a sync that completes has returned
\* null or a result mapping.
C1_SyncNeverRaises ==
    /\ ret.kind \in {"none", "null", "mapping"}
    /\ pc = "done" => ret.kind \in {"null", "mapping"}

\* sync completed after a resolver call of the mutation phase rejected
C1_Witness == pc = "done" /\ MutationRejected /\ ret.kind = "null"

\* C2: when validateProcess returns false for the process, sync returns null
\* and calls neither resolveQuery nor resolveMutation.
C2_InvalidProcessNoResolverCalls ==
    (SyncStarted /\ ~validateProcess(process).ok) =>
        /\ pc = "done"
        /\ ret = Result("null", <<>>)
        /\ queryCalls = <<>>
        /\ mutationCalls = <<>>
        /\ \A k \in Keys : queryState[k] = NoCall

\* sync returned for a process whose schema could run but whose mapping list
\* repeats a source key
C2_Witness ==
    /\ pc = "done"
    /\ ~validateProcess(process).ok
    /\ HasDuplicate(SourceKeys(process.options.fields))
    /\ validateSchema(process.schema)
    /\ ret.kind = "null"

\* C3: if resolveQuery rejects for a source field, sync returns null and
\* resolveMutation is never called in that sync.
C3_QueryRejectionSkipsMutation ==
    QueryRejected =>
        /\ mutationCalls = <<>>
        /\ mutationSlots = <<>>
        /\ pc # "mutation"
        /\ pc = "done" => ret.kind = "null"

\* sync returned after one query resolver rejected and another fulfilled
C3_Witness ==
    /\ pc = "done"
    /\ QueryRejected
    /\ \E k \in Keys : queryState[k].status = "fulfilled"

\* C4: on a valid process where every resolver call fulfils, sync returns a
\* mapping with exactly the target keys, and the entry of each target key t
\* is what resolveMutation(t, v) returned, v being exactly the value that
\* resolveQuery resolved to for the paired source key (any FieldValue v).
C4_MappingCarriesQueryValues ==
    (/\ pc = "done"
     /\ origin = "createProcess"
     /\ BuiltFromOptions(process)
     /\ validateProcess(process).ok
     /\ ~QueryRejected
     /\ ~MutationRejected) =>
        LET fields == process.options.fields
        IN  /\ ret.kind = "mapping"
            /\ {ret.data[i].key : i \in 1..Len(ret.data)} = SeqToSet(TargetKeys(fields))
            /\ \A f \in 1..Len(fields) :
                  \E i \in 1..Len(mutationCalls) :
                      /\ mutationCalls[i].key = fields[f].targetField
                      /\ mutationCalls[i].arg = queryState[fields[f].sourceField].value
                      /\ \E j \in 1..Len(ret.data) :
                            /\ ret.data[j].key = fields[f].targetField
                            /\ ret.data[j].value = mutationCalls[i].result

\* C5: the two phases are sequential: no resolveMutation call starts before
\* every resolveQuery call of the sync has settled.
C5_PhasesSequential ==
    (mutationCalls # <<>> \/ pc = "mutation") =>
        \A i \in 1..Len(queryCalls) :
            queryState[queryCalls[i]].status \in {"fulfilled", "rejected"}

\* the mutation phase runs after two query resolvers settled
C5_Witness == mutationCalls # <<>> /\ Len(queryCalls) = 2

\* C6 as stated: whenever sync returns null because a resolver rejected, no
\* resolveMutation call of that sync was carried out successfully.
C6_Original ==
    (pc = "done" /\ ret.kind = "null" /\ (QueryRejected \/ MutationRejected)) =>
        ~MutationFulfilled

\* C6 amended: when sync returns after a resolver rejected it returns null,
\* never a partial mapping; after a query rejection no resolveMutation call
\* was made; after a mutation rejection every mutation slot of the phase was
\* still called in turn and has settled, and those that fulfilled stay done.
C6_NoPartialResult ==
    (pc = "done" /\ (QueryRejected \/ MutationRejected)) =>
        /\ ret = Result("null", <<>>)
        /\ QueryRejected => mutationCalls = <<>>
        /\ MutationRejected =>
              /\ Len(mutationCalls) = Len(mutationSlots)
              /\ \A i \in 1..Len(mutationCalls) :
                    /\ mutationCalls[i].key = mutationSlots[i].name[1]
                    /\ mutationCalls[i].status \in {"fulfilled", "rejected"}

\* sync returned null although one mutation slot fulfilled before another rejected
C6_Witness ==
    /\ pc = "done"
    /\ ret.kind = "null"
    /\ Len(mutationCalls) = 2
    /\ mutationCalls[1].status = "fulfilled"
    /\ mutationCalls[2].status = "rejected"

\* everything validateProcess asks for except the uniqueness of the keys
OtherwiseValid(p) ==
    /\ p.defined /\ p.options.defined /\ p.options.fieldsDefined
    /\ p.options.sourceIntegration.defined /\ p.options.targetIntegration.defined
    /\ p.schema.defined
    /\ p.options.fields # <<>>
    /\ p.options.sourceIntegration.resolveQuery
    /\ p.options.targetIntegration.resolveMutation
    /\ p.schema.query.defined /\ p.schema.mutation.defined
    /\ Len(p.schema.query.fields) = Len(p.schema.mutation.fields)

\* C7: a mapping list with two entries of one source key, or two entries of
\* one target key, makes validateProcess return false; a source key equal to
\* a target key does not: with distinct source keys and distinct target keys
\* an otherwise valid process passes, whatever keys the two sides share.
C7_DuplicateKeysRejected ==
    LET fields == process.options.fields
    IN  /\ (HasDuplicate(SourceKeys(fields)) \/ HasDuplicate(TargetKeys(fields)))
              => ~validateProcess(process).ok
        /\ (/\ OtherwiseValid(process)
            /\ ~HasDuplicate(SourceKeys(fields))
            /\ ~HasDuplicate(TargetKeys(fields))) => validateProcess(process).ok

\* sync validated an otherwise valid process whose only fault is a repeated target key
C7_Witness ==
    /\ pc = "done"
    /\ OtherwiseValid(process)
    /\ ~HasDuplicate(SourceKeys(process.options.fields))
    /\ HasDuplicate(TargetKeys(process.options.fields))
    /\ console[1] = <<"error", "Validation failed", "Target fields must be unique">>

Absent(p) ==
    \/ ~p.defined
    \/ ~p.options.defined
    \/ ~p.options.fieldsDefined
    \/ ~p.options.sourceIntegration.defined
    \/ ~p.options.targetIntegration.defined
    \/ ~p.schema.defined

\* C8: validateProcess never throws: for every process, also one without
\* options, fields, an integration or a schema, and for no process at all,
\* it returns a boolean, and it returns false when any of these is absent.
C8_ValidateNeverThrows ==
    LET v == validateProcess(process)
    IN  /\ ~v.thrown
        /\ v.ok \in BOOLEAN
        /\ Absent(process) => ~v.ok

\* sync validated a process that lacks nothing but its schema
C8_Witness ==
    /\ pc = "done"
    /\ process.defined /\ process.options.defined /\ process.options.fieldsDefined
    /\ process.options.sourceIntegration.defined /\ process.options.targetIntegration.defined
    /\ ~process.schema.defined
    /\ console[1] = <<"error", "Validation failed", "Schema is required">>

\* C9: createProcess signals an error, and returns no process, exactly when
\* the validator rejects the process built from the options, in particular
\* for an empty fields list; a process it returns has options and a schema
\* with a query and a mutation slot-set, and satisfies validateProcess.
C9_CreateProcessFailsIffInvalid ==
    origin = "createProcess" =>
        /\ thrown # "none" <=> ~validateProcess(Process(given, createSchema(given.fields))).ok
        /\ given.fields = <<>> => thrown # "none"
        /\ thrown # "none" => process = NoProcess /\ pc = "createFailed"
        /\ thrown = "none" =>
              /\ process.defined /\ process.options = given /\ given.defined
              /\ process.schema.defined
              /\ process.schema.query.defined /\ process.schema.mutation.defined
              /\ validateProcess(process).ok

\* createProcess threw for options whose only fault is the empty fields list
C9_Witness ==
    /\ pc = "createFailed"
    /\ thrown = "Invalid process"
    /\ given.fieldsDefined /\ given.fields = <<>>
    /\ given.sourceIntegration.resolveQuery /\ given.targetIntegration.resolveMutation

ValidMappingList(fields) ==
    /\ fields # <<>>
    /\ ~HasDuplicate(SourceKeys(fields))
    /\ ~HasDuplicate(TargetKeys(fields))

\* C10: for a valid mapping list the schema of createSchema has as many
\* query slots as mutation slots, and as many as the list has entries.
C10_SlotCardinality ==
    (origin = "createProcess" /\ ValidMappingList(given.fields)) =>
        LET schema == createSchema(given.fields)
        IN  /\ Len(schema.query.fields) = Len(given.fields)
            /\ Len(schema.mutation.fields) = Len(given.fields)
            /\ thrown = "none" => process.schema = schema

\* createProcess built the schema of a valid list of two mapped fields
C10_Witness ==
    /\ origin = "createProcess"
    /\ thrown = "none"
    /\ ValidMappingList(given.fields)
    /\ Len(given.fields) = 2
    /\ Len(process.schema.query.fields) = 2

\* names with one space between neighbours and none at the end
Spaced(names) ==
    [i \in 1..(2 * Len(names) - 1) |-> IF i % 2 = 1 THEN names[(i + 1) \div 2] ELSE " "]

\* the keys at their first occurrence, in order
RECURSIVE FirstOccurrences(_)
FirstOccurrences(keys) ==
    IF keys = <<>> THEN <<>>
    ELSE <<keys[1]>> \o FirstOccurrences(SelectSeq(Tail(keys), LAMBDA k : k # keys[1]))

\* C11 as stated: createQueryString returns query{k1 ... kN}, k1..kN being
\* the source keys of the mapping list in list order, and fails when the
\* schema has no query type.
C11_Original ==
    lib.fn = "createQueryString" =>
        IF lib.schema.query.defined
        THEN /\ ~lib.out.thrown
             /\ lib.out.text = <<"query", "{">> \o Spaced(SourceKeys(lib.fields)) \o <<"}">>
        ELSE lib.out.thrown /\ lib.out.text = <<>>

\* C11 amended: createQueryString returns query{k1 ... kN}, k1..kN being
\* the distinct source keys of the mapping list in the order of their first
\* occurrence (all source keys in list order when they are distinct), one
\* space between neighbours and none at the end; it fails with an error
\* when the schema has no query type.
C11_QueryText ==
    lib.fn = "createQueryString" =>
        IF lib.schema.query.defined
        THEN /\ ~lib.out.thrown
             /\ lib.out.text =
                   <<"query", "{">> \o Spaced(FirstOccurrences(SourceKeys(lib.fields))) \o <<"}">>
             /\ ~HasDuplicate(SourceKeys(lib.fields)) =>
                   lib.out.text = <<"query", "{">> \o Spaced(SourceKeys(lib.fields)) \o <<"}">>
        ELSE /\ lib.out.thrown
             /\ lib.out.message = "Schema has no query type defined"
             /\ lib.out.text = <<>>

\* createQueryString returned the text of two distinct source keys
C11_Witness ==
    /\ lib.fn = "createQueryString"
    /\ Len(lib.fields) = 2
    /\ ~HasDuplicate(SourceKeys(lib.fields))
    /\ lib.out.text = <<"query", "{", lib.fields[1].sourceField, " ",
                        lib.fields[2].sourceField, "}">>

\* the source key of the first mapping whose target key is t
PairedSource(fields, t) ==
    LET hits == {i \in 1..Len(fields) : fields[i].targetField = t}
    IN  fields[CHOOSE i \in hits : \A j \in hits : i <= j].sourceField

IsPaired(fields, t) == \E i \in 1..Len(fields) : fields[i].targetField = t

\* the characters of a stored value as the text shows them
Verbatim(value) == IF value.kind = "null" THEN <<"null">> ELSE value.chars

RECURSIVE ExpectedItems(_, _, _)
ExpectedItems(slots, fields, results) ==
    IF slots = <<>> THEN <<>>
    ELSE <<slots[1], "(", "resolvedQuery", ":", Quote>>
         \o Verbatim(results[PairedSource(fields, slots[1])])
         \o <<Quote, ")">>
         \o (IF Len(slots) > 1 THEN <<" ">> ELSE <<>>)
         \o ExpectedItems(Tail(slots), fields, results)

\* a mutation slot without a paired source key
UnpairedSlots(schema, fields) ==
    {i \in 1..Len(schema.mutation.fields) : ~IsPaired(fields, schema.mutation.fields[i])}

\* a paired mutation slot whose source key has no entry in the results
MissingSlots(schema, fields, results) ==
    {i \in 1..Len(schema.mutation.fields) :
        /\ IsPaired(fields, schema.mutation.fields[i])
        /\ PairedSource(fields, schema.mutation.fields[i]) \notin DOMAIN results}

\* C12: createMutationString returns mutation{...} holding, for each mutation
\* slot t in descriptor order, the item t(resolvedQuery:"<v>") with v the
\* value stored in queryResults under the source key paired with t, inserted
\* unmodified and unescaped (null reads null, a number reads as its
\* decimal text), items separated by one space.
C12_MutationText ==
    (/\ lib.fn = "createMutationString"
     /\ lib.schema.mutation.defined
     /\ UnpairedSlots(lib.schema, lib.fields) = {}
     /\ MissingSlots(lib.schema, lib.fields, lib.queryResults) = {})
    => /\ ~lib.out.thrown
       /\ lib.out.text =
             <<"mutation", "{">>
             \o ExpectedItems(lib.schema.mutation.fields, lib.fields, lib.queryResults)
             \o <<"}">>

\* two slots, the first value holding a double quote that the text keeps
C12_Witness ==
    /\ lib.fn = "createMutationString"
    /\ lib.fields = <<MappedField("k1", "k2"), MappedField("k2", "k1")>>
    /\ lib.schema = createSchema(lib.fields)
    /\ DOMAIN lib.queryResults = {"k1", "k2"}
    /\ lib.queryResults["k1"] = Str(<<"a", Quote>>)
    /\ lib.queryResults["k2"] = Str(<<"a">>)
    /\ lib.out.text = <<"mutation", "{",
                        "k2", "(", "resolvedQuery", ":", Quote, "a", Quote, Quote, ")", " ",
                        "k1", "(", "resolvedQuery", ":", Quote, "a", Quote, ")", "}">>

\* C13 as stated: createMutationString fails with an error naming the
\* offending mutation slot when that slot has no paired source key, and also
\* when queryResults has no entry for the paired source key; in neither case
\* does it return a mutation string.
C13_MappingErrorOnMissing ==
    (/\ lib.fn = "createMutationString"
     /\ lib.schema.mutation.defined
     /\ \/ UnpairedSlots(lib.schema, lib.fields) # {}
        \/ MissingSlots(lib.schema, lib.fields, lib.queryResults) # {})
    => /\ lib.out.thrown
       /\ lib.out.text = <<>>
       /\ \E i \in UnpairedSlots(lib.schema, lib.fields)
                   \cup MissingSlots(lib.schema, lib.fields, lib.queryResults) :
              lib.out.slot = lib.schema.mutation.fields[i]

\* how many mappings of the list have target key t
TargetCount(fields, t) == Cardinality({i \in 1..Len(fields) : fields[i].targetField = t})

\* the mappings placed before the first mapping of target key t that share
\* its source key
EarlierSameSource(fields, t) ==
    LET hits == {i \in 1..Len(fields) : fields[i].targetField = t}
        at == CHOOSE i \in hits : \A j \in hits : i <= j
    IN  {i \in 1..(at - 1) : fields[i].sourceField = fields[at].sourceField}

\* C14 as stated: for every mapping list and every target key t that appears
\* exactly once among its target keys,
\* findMutationFieldName(fields, findQueryFieldName(fields, t)) equals t.
C14_Original ==
    (/\ lib.fn = "findMutationFieldName"
     /\ TargetCount(lib.fields, lib.key) = 1)
    => lib.out.found /\ lib.out.key = lib.key

\* C14 amended: for a target key t that appears exactly once among the
\* target keys, findMutationFieldName(fields, findQueryFieldName(fields, t))
\* equals t when no earlier mapping of the list has the source key paired
\* with t (so for every list with distinct source keys); otherwise it is the
\* target key of the first mapping with that source key, which is not t.
C14_InverseLookup ==
    (/\ lib.fn = "findMutationFieldName"
     /\ TargetCount(lib.fields, lib.key) = 1)
    => /\ lib.out.found
       /\ lib.out.slot = PairedSource(lib.fields, lib.key)
       /\ IF EarlierSameSource(lib.fields, lib.key) = {}
          THEN lib.out.key = lib.key
          ELSE /\ lib.out.key # lib.key
               /\ \E i \in EarlierSameSource(lib.fields, lib.key) :
                     /\ lib.out.key = lib.fields[i].targetField
                     /\ \A j \in EarlierSameSource(lib.fields, lib.key) : i <= j
       /\ ~HasDuplicate(SourceKeys(lib.fields)) => lib.out.key = lib.key

\* the lookup went from target k1 to source k2 and back to k1
C14_Witness ==
    /\ lib.fn = "findMutationFieldName"
    /\ lib.fields = <<MappedField("k1", "k2"), MappedField("k2", "k1")>>
    /\ lib.key = "k1"
    /\ lib.out.slot = "k2"
    /\ lib.out.found
    /\ lib.out.key = "k1"

\* the message of the earliest violated check: existence, then I1..I5
EarliestViolation(p) ==
    IF Absent(p) THEN
        IF ~p.defined THEN "Process is required"
        ELSE IF ~p.options.defined THEN "Options are required"
        ELSE IF ~p.options.fieldsDefined THEN "Fields are required"
        ELSE IF ~p.options.sourceIntegration.defined THEN "Source integration is required"
        ELSE IF ~p.options.targetIntegration.defined THEN "Target integration is required"
        ELSE "Schema is required"
    ELSE IF p.options.fields = <<>> THEN "Fields cannot be empty"
    ELSE IF HasDuplicate(SourceKeys(p.options.fields)) THEN "Source fields must be unique"
    ELSE IF HasDuplicate(TargetKeys(p.options.fields)) THEN "Target fields must be unique"
    ELSE IF ~p.options.sourceIntegration.resolveQuery THEN "Source must have a resolveQuery"
    ELSE IF ~p.options.targetIntegration.resolveMutation
         THEN "Target must have a resolveMutation"
    ELSE IF ~p.schema.query.defined THEN "Schema must have a query type"
    ELSE IF ~p.schema.mutation.defined THEN "Schema must have a mutation type"
    ELSE IF Len(p.schema.query.fields) # Len(p.schema.mutation.fields)
         THEN "Schema must have as many query fields as there are mutation fields"
    ELSE ""

\* how many of the checks of I1..I5 the process violates
ViolationCount(p) ==
    Cardinality({n \in 1..5 :
        \/ n = 1 /\ p.options.fields = <<>>
        \/ n = 2 /\ HasDuplicate(SourceKeys(p.options.fields))
        \/ n = 3 /\ HasDuplicate(TargetKeys(p.options.fields))
        \/ n = 4 /\ (~p.options.sourceIntegration.resolveQuery
                     \/ ~p.options.targetIntegration.resolveMutation)
        \/ n = 5 /\ (~p.schema.query.defined \/ ~p.schema.mutation.defined
                     \/ Len(p.schema.query.fields) # Len(p.schema.mutation.fields))})

\* C15: validateProcess checks existence, then I1 (fields non-empty), I2
\* (source keys distinct), I3 (target keys distinct), I4 (resolvers present),
\* I5 (both slot-sets present, equal cardinality) in that order and stops at
\* the first failure: it emits exactly one diagnostic, the message of the
\* earliest violated check, and none when it returns true.
C15_EarliestDiagnosticOnly ==
    LET v == validateProcess(process)
    IN  /\ v.ok <=> EarliestViolation(process) = ""
        /\ v.ok => v.console = <<>>
        /\ ~v.ok => v.console = << <<"error", "Validation failed", EarliestViolation(process)>> >>
        /\ (pc = "done" /\ ~v.ok) =>
              console = << <<"error", "Validation failed", EarliestViolation(process)>>,
                           <<"warn", "Process is invalid", "">> >>
        /\ (pc = "createFailed" /\ thrown = "Error") =>
              console = << <<"error", "Validation failed",
                             EarliestViolation(Process(given, createSchema(given.fields)))>> >>

\* sync has validated a process that violates three of I1..I5 at once and
\* the console holds the message of the earliest, I2, alone
C15_Witness ==
    /\ pc = "done"
    /\ ~Absent(process)
    /\ ViolationCount(process) >= 3
    /\ HasDuplicate(SourceKeys(process.options.fields))
    /\ ~process.options.sourceIntegration.resolveQuery
    /\ ~process.schema.mutation.defined
    /\ console = << <<"error", "Validation failed", "Source fields must be unique">>,
                    <<"warn", "Process is invalid", "">> >>

\* resolveSource has run on a valid process built by createSchema
ResolveSourceRan == SyncStarted /\ validateProcess(process).ok /\ BuiltFromOptions(process)

\* C16 as stated: resolveSource on a valid process issues one resolveQuery
\* call per source key and either raises an error (when any of the calls
\* rejects, even if the others fulfil) or returns a mapping with exactly one
\* entry per source key holding that key's resolved value, whatever the
\* order in which the calls complete; it never returns a partial mapping.
C16_AllOrNothingMapping ==
    ResolveSourceRan =>
        LET keys == SourceKeys(process.options.fields)
        IN  /\ queryCalls = keys
            /\ \A k \in Keys : queryState[k].status # "none" <=> k \in SeqToSet(keys)
            /\ queryResults.kind = "none" <=> pc = "query"
            /\ pc = "query" <=> \E k \in SeqToSet(keys) : queryState[k].status = "pending"
            /\ (pc # "query" /\ QueryRejected) => queryResults.kind = "thrown"
            /\ (pc # "query" /\ ~QueryRejected) => queryResults.kind = "data"
            /\ queryResults.kind = "data" =>
                  /\ DOMAIN queryResults.data = SeqToSet(keys)
                  /\ \A k \in SeqToSet(keys) :
                        /\ queryState[k].status = "fulfilled"
                        /\ queryResults.data[k] = queryState[k].value

\* sync is suspended at an await of resolveSource or resolveTarget
Syncing == pc \in {"query", "mutation"}

\* a resolver call that sync issued has not settled
PendingResolverCall ==
    \/ \E k \in Keys : queryState[k].status = "pending"
    \/ mutationCalls # <<>> /\ mutationCalls[Len(mutationCalls)].status = "pending"

\* C17: provided every resolver call it issues eventually settles, every
\* sync call eventually returns (a mapping or null); a sync call is in
\* Syncing only while one of its resolver calls has not settled, so a call
\* that never settles is the only way to stay there forever.
C17_SyncEventuallyReturns ==
    /\ [](Syncing => PendingResolverCall)
    /\ Syncing ~> (pc = "done" /\ ret.kind \in {"null", "mapping"})

\* sync returned a mapping after two query and two mutation calls settled
C17_Witness ==
    /\ pc = "done"
    /\ ret.kind = "mapping"
    /\ Len(queryCalls) = 2
    /\ Len(mutationCalls) = 2
    /\ \A i \in 1..2 : mutationCalls[i].status = "fulfilled"

\* the keys for which resolveMutation has been invoked, in call order
MutationCallKeys == [i \in 1..Len(mutationCalls) |-> mutationCalls[i].key]

\* C18 (implicit): in one sync call on a valid process resolveQuery is
\* invoked at most once per source key and resolveMutation at most once per
\* target key, never for a key outside the mapping list; when sync returns a
\* mapping, each was invoked exactly once per mapped field; and the process
\* (options, fields, schema) is the same after the call as before it.
C18_ResolverCallFrame ==
    (SyncStarted /\ origin = "createProcess") =>
        LET fields == given.fields
        IN  /\ process = Process(given, createSchema(fields))
            /\ ~HasDuplicate(queryCalls)
            /\ SeqToSet(queryCalls) \subseteq SeqToSet(SourceKeys(fields))
            /\ ~HasDuplicate(MutationCallKeys)
            /\ SeqToSet(MutationCallKeys) \subseteq SeqToSet(TargetKeys(fields))
            /\ ret.kind = "mapping" =>
                  /\ queryCalls = SourceKeys(fields)
                  /\ MutationCallKeys = TargetKeys(fields)

====
